---- MODULE Spec2Model ----
(***************************************************************************)
(* Model of the OCR.space client of python_ocr_integration/ocr_space_api.py *)
(* (class OCRSpaceAPI).  The client is synchronous and single-threaded:     *)
(* every public method is one atomic step whose inputs are its arguments,   *)
(* the file system, and what the remote service answers.                    *)
(*                                                                          *)
(* Python values:                                                           *)
(*   - input_value and ParsedText, whose characters the code inspects       *)
(*     (startswith, Path.suffix, strip), are sequences of 1-character       *)
(*     strings;                                                             *)
(*   - every other str is a TLA+ string, None is the string None;           *)
(*   - a dict is a function whose DOMAIN is the set of keys present, so     *)
(*     d.get(k, default) is Get(d, k, default).                             *)
(***************************************************************************)
EXTENDS Integers, Sequences, FiniteSets, TLC

VARIABLES api_key, fs, response, call

vars == <<api_key, fs, response, call>>

-----------------------------------------------------------------------------
(* Python helpers *)

None == "<None>"

EmptyDict == <<>>

\* dict.get(key, default)
Get(d, k, default) == IF k \in DOMAIN d THEN d[k] ELSE default

\* truth value of an Optional[str]
Truthy(v) == v # None /\ v # ""

\* str(b).lower() for a bool b
BoolStr(b) == IF b THEN "true" ELSE "false"

\* str(n) for the engine numbers that pass validation
IntStr(n) == CASE n = 1 -> "1" [] n = 2 -> "2" [] OTHER -> "?"

\* s.startswith(p)
StartsWith(s, p) == Len(s) >= Len(p) /\ SubSeq(s, 1, Len(p)) = p

\* the sequence of the members of seq that satisfy Test, in order
RECURSIVE SelectSeqIdx(_, _)
SelectSeqIdx(seq, keep) ==
    IF seq = <<>> THEN <<>>
    ELSE (IF keep[1] THEN <<seq[1]>> ELSE <<>>)
         \o SelectSeqIdx(Tail(seq), Tail(keep))

-----------------------------------------------------------------------------
(* Class constants *)

POST_ENDPOINT == "https://api.ocr.space/parse/image"
GET_ENDPOINT == "https://api.ocr.space/parse/imageurl"

LANGUAGES ==
    {"ara", "bul", "chs", "cht", "hrv", "cze", "dan", "dut", "eng", "fin",
     "fre", "ger", "gre", "hun", "kor", "ita", "jpn", "pol", "por", "rus",
     "slv", "spa", "swe", "tha", "tur", "ukr", "vnm", "auto"}

URL_TIMEOUT == 60
UPLOAD_TIMEOUT == 120

-----------------------------------------------------------------------------
(* Inputs of the model: argument values, file system contents, replies *)

\* strings whose characters the code looks at
S_data == <<"d", "a", "t", "a", ":">>
S_base64 == <<";", "b", "a", "s", "e", "6", "4", ",">>

V_url == <<"h", "t", "t", "p", ":", "/", "/", "h", "/", "i", ".", "p", "n", "g">>
V_file == <<"i", "n", "/", "s", ".", "P", "N", "G">>
V_missing == <<"g", "o", "n", "e", ".", "p", "d", "f">>
V_dir == <<"i", "n">>
V_b64 == <<"d", "a", "t", "a", ":", "i", "/", "p", ";", "b", "a", "s", "e", "6", "4", ",", "Q", "Q">>
V_b64_nomarker == <<"d", "a", "t", "a", ":", "Q", "Q">>
V_b64_bare == <<"Q", "Q">>
V_out == <<"o", "u", "t", ".", "p", "d", "f">>

OutputPaths == {V_out, V_dir}

InputKinds == {"url", "file", "base64", "ftp"}

\* input_value is a URL, a file path or a base64 string, as input_type says
InputValues(input_type) ==
    CASE input_type = "file" -> {V_file, V_missing, V_dir}
      [] input_type = "base64" -> {V_b64, V_b64_nomarker, V_b64_bare}
      [] OTHER -> {V_url}
LanguageInputs == {"eng", "auto", "english"}
EngineInputs == {1, 2, 3}

DefaultOptions ==
    [is_overlay_required |-> FALSE, filetype |-> None, detect_orientation |-> FALSE,
     is_create_searchable_pdf |-> FALSE, is_searchable_pdf_hide_text_layer |-> FALSE,
     scale |-> FALSE, is_table |-> FALSE]

OptionInputs ==
    {DefaultOptions,
     [DefaultOptions EXCEPT !.is_overlay_required = TRUE, !.filetype = "PDF",
                            !.is_create_searchable_pdf = TRUE, !.is_table = TRUE]}

\* file system: path -> Absent, Directory, or the bytes of a regular file
Absent == "<absent>"
Directory == "<dir>"
IsFile(f, p) == p \in DOMAIN f /\ f[p] \notin {Absent, Directory}

Exists_Unchecked(f, p) == TRUE

\* Path(p).exists()
Exists(f, p) == p \in DOMAIN f /\ f[p] # Absent

-----------------------------------------------------------------------------
(* pathlib and str operations used by the file strategy *)

UpperLetters == <<"A", "B", "C", "D", "E", "F", "G", "H", "I", "J", "K", "L", "M", "N", "O", "P", "Q", "R", "S", "T", "U", "V", "W", "X", "Y", "Z">>
LowerLetters == <<"a", "b", "c", "d", "e", "f", "g", "h", "i", "j", "k", "l", "m", "n", "o", "p", "q", "r", "s", "t", "u", "v", "w", "x", "y", "z">>

\* str.lower(), character by character
LowerChar(c) ==
    IF \E i \in DOMAIN UpperLetters : UpperLetters[i] = c
    THEN LowerLetters[CHOOSE i \in DOMAIN UpperLetters : UpperLetters[i] = c]
    ELSE c
Lower_AsWritten(s) == s

Lower(s) == [i \in DOMAIN s |-> LowerChar(s[i])]

\* s.rfind(c), 1-based, 0 when c does not occur
RFind(s, c) ==
    LET hits == {i \in DOMAIN s : s[i] = c}
    IN  IF hits = {} THEN 0 ELSE CHOOSE i \in hits : \A j \in hits : j <= i

\* Path(p).name: the final path component
PathName(p) == SubSeq(p, RFind(p, "/") + 1, Len(p))

\* Path(p).suffix: the final component from its last dot on, when that dot is
\* neither its first nor its last character
PathSuffix(p) ==
    LET name == PathName(p)
        i == RFind(name, ".")
    IN  IF 1 < i /\ i < Len(name) THEN SubSeq(name, i, Len(name)) ELSE <<>>

content_types ==
    (<<".", "j", "p", "g">> :> "image/jpeg") @@
    (<<".", "j", "p", "e", "g">> :> "image/jpeg") @@
    (<<".", "p", "n", "g">> :> "image/png") @@
    (<<".", "g", "i", "f">> :> "image/gif") @@
    (<<".", "w", "e", "b", "p">> :> "image/webp") @@
    (<<".", "t", "i", "f", "f">> :> "image/tiff") @@
    (<<".", "t", "i", "f">> :> "image/tiff") @@
    (<<".", "p", "d", "f">> :> "application/pdf")

_get_content_type(extension) ==
    Get(content_types, extension, "application/octet-stream")

-----------------------------------------------------------------------------
(* Outcomes of a call, I/O events, log records *)

Raise(type, msg) == [kind |-> "raise", type |-> type, msg |-> msg]
Return(v) == [kind |-> "return", value |-> v]

LogRec(level, msg) == [level |-> level, msg |-> msg]

IoExists(p) == [op |-> "exists", path |-> p]
IoOpen(p, mode) == [op |-> "open", path |-> p, mode |-> mode]
IoWrite(p) == [op |-> "write", path |-> p]
IoHttp(req) == [op |-> "http", request |-> req]

\* the requests issued, in order
HttpRequests(io) ==
    LET http == SelectSeqIdx(io, [i \in DOMAIN io |-> io[i].op = "http"])
    IN  [i \in DOMAIN http |-> http[i].request]

\* the exception classes of requests.exceptions that an exchange can raise
RequestExceptions == {"ConnectionError", "Timeout", "HTTPError", "JSONDecodeError"}

-----------------------------------------------------------------------------
(* OCRSpaceAPI._process_response and the HTTP exchange *)

ExitCodeError_FatalIgnored(ocr_exit_code) ==
    IF ocr_exit_code = 3 THEN "All OCR processing failed" ELSE None

ExitCodeError_PartialRaised(ocr_exit_code) ==
    IF ocr_exit_code = 3 \/ ocr_exit_code = 2 THEN "All OCR processing failed"
    ELSE IF ocr_exit_code = 4 THEN "Fatal OCR error occurred"
    ELSE None

\* the message of the exception an overall exit code is raised as, None if it is not
ExitCodeError(ocr_exit_code) ==
    IF ocr_exit_code = 3 THEN "All OCR processing failed"
    ELSE IF ocr_exit_code = 4 THEN "Fatal OCR error occurred"
    ELSE None

\* Result of a helper: the outcome, and the log records it wrote.
_process_response(response_data) ==
    IF Get(response_data, "IsErroredOnProcessing", FALSE)
    THEN [log |-> <<>>,
          outcome |-> Raise("Exception",
                            <<"OCR processing error: ",
                              Get(response_data, "ErrorMessage", "Unknown error"),
                              ". Details: ",
                              Get(response_data, "ErrorDetails", "")>>)]
    ELSE LET ocr_exit_code == Get(response_data, "OCRExitCode", 0)
         IN  IF ExitCodeError(ocr_exit_code) # None
             THEN [log |-> <<>>,
                   outcome |-> Raise("Exception", <<ExitCodeError(ocr_exit_code)>>)]
             ELSE [log |-> (IF ocr_exit_code = 2
                            THEN <<LogRec("warning", "Partial OCR success - some pages may have failed")>>
                            ELSE <<>>)
                           \o <<LogRec("info", "OCR completed")>>,
                   outcome |-> Return(response_data)]

Exchange_TransportWrapped(request, reply) ==
    IF reply.kind = "ok"
    THEN ("io" :> <<IoHttp(request)>>) @@ _process_response(reply.body)
    ELSE [io |-> <<IoHttp(request)>>, log |-> <<>>,
          outcome |-> Raise("Exception", <<"OCR processing error: ", reply.kind>>)]

Exchange_RetriedOnFailure(request, reply) ==
    IF reply.kind = "ok"
    THEN ("io" :> <<IoHttp(request)>>) @@ _process_response(reply.body)
    ELSE [io |-> <<IoHttp(request), IoHttp(request)>>, log |-> <<>>,
          outcome |-> Raise(reply.kind, <<"transport">>)]

\* requests.get / requests.post, raise_for_status(), response.json() and the
\* validation of the decoded body.  reply is what the network and the service
\* do with the request: a JSON body, or the exception the exchange ends in.
Exchange(request, reply) ==
    IF reply.kind = "ok"
    THEN ("io" :> <<IoHttp(request)>>) @@ _process_response(reply.body)
    ELSE [io |-> <<IoHttp(request)>>, log |-> <<>>,
          outcome |-> Raise(reply.kind, <<"transport">>)]

_ocr_from_url(url, params, reply) ==
    LET request == [method |-> "GET", url |-> GET_ENDPOINT,
                    params |-> ("url" :> url) @@ params,
                    data |-> EmptyDict, files |-> EmptyDict,
                    timeout |-> URL_TIMEOUT]
        x == Exchange(request, reply)
    IN  [x EXCEPT !.log = <<LogRec("info", "Processing OCR from URL")>> \o @]

_ocr_from_file(f, file_path, params, reply) ==
    IF ~Exists(f, file_path)
    THEN [io |-> <<IoExists(file_path)>>, log |-> <<>>,
          outcome |-> Raise("FileNotFoundError", <<"File not found: ", file_path>>)]
    ELSE LET content_type == _get_content_type(Lower(PathSuffix(file_path)))
             info == <<LogRec("info", "Processing OCR from file")>>
         IN  IF ~IsFile(f, file_path)
             THEN [io |-> <<IoExists(file_path), IoOpen(file_path, "rb")>>,
                   log |-> info,
                   outcome |-> Raise("IsADirectoryError", <<"open: ", file_path>>)]
             ELSE LET request ==
                          [method |-> "POST", url |-> POST_ENDPOINT,
                           params |-> EmptyDict, data |-> params,
                           files |-> [file |-> <<PathName(file_path), f[file_path],
                                                 content_type>>],
                           timeout |-> UPLOAD_TIMEOUT]
                      x == Exchange(request, reply)
                  IN  [x EXCEPT !.io = <<IoExists(file_path), IoOpen(file_path, "rb")>> \o @,
                                !.log = info \o @]

HasDataPrefix_Unchecked(base64_string) == TRUE

\* base64_string.startswith('data:')
HasDataPrefix(base64_string) == StartsWith(base64_string, S_data)

_ocr_from_base64(base64_string, params, reply) ==
    IF ~HasDataPrefix(base64_string)
    THEN [io |-> <<>>, log |-> <<>>,
          outcome |-> Raise("ValueError", <<"Base64 string must include data URI prefix">>)]
    ELSE LET request == [method |-> "POST", url |-> POST_ENDPOINT,
                         params |-> EmptyDict,
                         data |-> ("base64Image" :> base64_string) @@ params,
                         files |-> EmptyDict,
                         timeout |-> UPLOAD_TIMEOUT]
             x == Exchange(request, reply)
         IN  [x EXCEPT !.log = <<LogRec("info", "Processing OCR from base64 data")>> \o @]

-----------------------------------------------------------------------------
(* OCRSpaceAPI.ocr_space *)

\* The first validation that fails, as the ValueError it raises; None if all pass.
ValidateInputs_LanguageUnchecked(input_type, language, ocr_engine) ==
    IF input_type \notin {"url", "file", "base64"}
    THEN "input_type must be 'url', 'file', or 'base64'"
    ELSE IF ocr_engine \notin {1, 2}
    THEN "ocr_engine must be 1 or 2"
    ELSE IF language = "auto" /\ ocr_engine # 2
    THEN "Auto-detect language is only available with OCR Engine 2"
    ELSE None

ValidateInputs_PairingUnchecked(input_type, language, ocr_engine) ==
    IF input_type \notin {"url", "file", "base64"}
    THEN "input_type must be 'url', 'file', or 'base64'"
    ELSE IF language \notin LANGUAGES
    THEN "Unsupported language"
    ELSE IF ocr_engine \notin {1, 2}
    THEN "ocr_engine must be 1 or 2"
    ELSE None

ValidateInputs(input_type, language, ocr_engine) ==
    IF input_type \notin {"url", "file", "base64"}
    THEN "input_type must be 'url', 'file', or 'base64'"
    ELSE IF language \notin LANGUAGES
    THEN "Unsupported language"
    ELSE IF ocr_engine \notin {1, 2}
    THEN "ocr_engine must be 1 or 2"
    ELSE IF language = "auto" /\ ocr_engine # 2
    THEN "Auto-detect language is only available with OCR Engine 2"
    ELSE None

BuildParams_FiletypeKept(key, language, ocr_engine, o) ==
    [apikey |-> key,
     language |-> language,
     isOverlayRequired |-> BoolStr(o.is_overlay_required),
     detectOrientation |-> BoolStr(o.detect_orientation),
     isCreateSearchablePdf |-> BoolStr(o.is_create_searchable_pdf),
     isSearchablePdfHideTextLayer |-> BoolStr(o.is_searchable_pdf_hide_text_layer),
     scale |-> BoolStr(o.scale),
     isTable |-> BoolStr(o.is_table),
     OCREngine |-> IntStr(ocr_engine),
     filetype |-> IF Truthy(o.filetype) THEN o.filetype ELSE "PDF"]

\* The params dict, built anew by every call (lines 120-133).
BuildParams(key, language, ocr_engine, o) ==
    LET base == [apikey |-> key,
                 language |-> language,
                 isOverlayRequired |-> BoolStr(o.is_overlay_required),
                 detectOrientation |-> BoolStr(o.detect_orientation),
                 isCreateSearchablePdf |-> BoolStr(o.is_create_searchable_pdf),
                 isSearchablePdfHideTextLayer |-> BoolStr(o.is_searchable_pdf_hide_text_layer),
                 scale |-> BoolStr(o.scale),
                 isTable |-> BoolStr(o.is_table),
                 OCREngine |-> IntStr(ocr_engine)]
    IN  IF Truthy(o.filetype) THEN ("filetype" :> o.filetype) @@ base ELSE base

\* The except clauses: log what the strategy raised, and re-raise it.
LogFailure(x) ==
    IF x.outcome.kind = "raise"
    THEN [x EXCEPT !.log = @ \o <<LogRec("error",
                              IF x.outcome.type \in RequestExceptions
                              THEN "API request failed"
                              ELSE "OCR processing failed")>>]
    ELSE x

\* The try block: dispatch on input_type.
Dispatch(f, input_type, input_value, params, reply) ==
    LogFailure(CASE input_type = "url" -> _ocr_from_url(input_value, params, reply)
                 [] input_type = "file" -> _ocr_from_file(f, input_value, params, reply)
                 [] input_type = "base64" -> _ocr_from_base64(input_value, params, reply))

ocr_space(key, f, input_type, input_value, language, ocr_engine, options, reply) ==
    LET invalid == ValidateInputs(input_type, language, ocr_engine)
    IN  IF invalid # None
        THEN [io |-> <<>>, log |-> <<>>, outcome |-> Raise("ValueError", <<invalid>>)]
        ELSE Dispatch(f, input_type, input_value,
                      BuildParams(key, language, ocr_engine, options), reply)

-----------------------------------------------------------------------------
(* OCRSpaceAPI.extract_text *)

\* result.get('FileParseExitCode') == 1
PageSucceeded(result) ==
    "FileParseExitCode" \in DOMAIN result /\ result["FileParseExitCode"] = 1

\* the characters str.strip() removes
Whitespace == {" ", "\n", "\t", "\r", "\f"}

RECURSIVE LStrip(_)
LStrip(s) == IF s # <<>> /\ Head(s) \in Whitespace THEN LStrip(Tail(s)) ELSE s

RECURSIVE RStrip(_)
RStrip(s) ==
    IF s # <<>> /\ s[Len(s)] \in Whitespace THEN RStrip(SubSeq(s, 1, Len(s) - 1)) ELSE s

\* str.strip()
Strip(s) == RStrip(LStrip(s))

\* sep.join(parts)
RECURSIVE Join(_, _)
Join(sep, parts) ==
    IF parts = <<>> THEN <<>>
    ELSE IF Len(parts) = 1 THEN parts[1]
    ELSE parts[1] \o sep \o Join(sep, Tail(parts))

S_blank_line == <<"\n", "\n">>

RECURSIVE CollectTexts_FailedPagesKept(_, _)
CollectTexts_FailedPagesKept(parsed_results, texts) ==
    IF parsed_results = <<>> THEN texts
    ELSE LET result == Head(parsed_results)
             text == Strip(Get(result, "ParsedText", <<>>))
         IN  CollectTexts_FailedPagesKept(Tail(parsed_results),
                          IF text # <<>> THEN Append(texts, text) ELSE texts)

\* the loop of extract_text over parsed_results, texts being the list built so far
RECURSIVE CollectTexts(_, _)
CollectTexts(parsed_results, texts) ==
    IF parsed_results = <<>> THEN texts
    ELSE LET result == Head(parsed_results)
             text == Strip(Get(result, "ParsedText", <<>>))
         IN  CollectTexts(Tail(parsed_results),
                          IF PageSucceeded(result) /\ text # <<>>
                          THEN Append(texts, text)
                          ELSE texts)

extract_text(response_data) ==
    Join(S_blank_line, CollectTexts(Get(response_data, "ParsedResults", <<>>), <<>>))

-----------------------------------------------------------------------------
(* OCRSpaceAPI.extract_words_with_positions *)

WordRecord_ZeroBasedPage(page_idx, line_idx, word_idx, word) ==
    [page |-> page_idx,
     line |-> line_idx + 1,
     word_index |-> word_idx + 1,
     text |-> Get(word, "WordText", ""),
     left |-> Get(word, "Left", 0),
     top |-> Get(word, "Top", 0),
     height |-> Get(word, "Height", 0),
     width |-> Get(word, "Width", 0)]

WordRecord(page_idx, line_idx, word_idx, word) ==
    [page |-> page_idx + 1,
     line |-> line_idx + 1,
     word_index |-> word_idx + 1,
     text |-> Get(word, "WordText", ""),
     left |-> Get(word, "Left", 0),
     top |-> Get(word, "Top", 0),
     height |-> Get(word, "Height", 0),
     width |-> Get(word, "Width", 0)]

\* the three nested loops; the *_idx are enumerate()'s 0-based indices
RECURSIVE WordsOfLine(_, _, _, _)
WordsOfLine(words, page_idx, line_idx, word_idx) ==
    IF word_idx >= Len(words) THEN <<>>
    ELSE <<WordRecord(page_idx, line_idx, word_idx, words[word_idx + 1])>>
         \o WordsOfLine(words, page_idx, line_idx, word_idx + 1)

RECURSIVE WordsOfPage(_, _, _)
WordsOfPage(lines, page_idx, line_idx) ==
    IF line_idx >= Len(lines) THEN <<>>
    ELSE WordsOfLine(Get(lines[line_idx + 1], "Words", <<>>), page_idx, line_idx, 0)
         \o WordsOfPage(lines, page_idx, line_idx + 1)

RECURSIVE WordsOfPages(_, _)
WordsOfPages(parsed_results, page_idx) ==
    IF page_idx >= Len(parsed_results) THEN <<>>
    ELSE LET result == parsed_results[page_idx + 1]
         IN  (IF PageSucceeded(result)
              THEN WordsOfPage(Get(Get(result, "TextOverlay", EmptyDict), "Lines", <<>>),
                               page_idx, 0)
              ELSE <<>>)
             \o WordsOfPages(parsed_results, page_idx + 1)

extract_words_with_positions(response_data) ==
    WordsOfPages(Get(response_data, "ParsedResults", <<>>), 0)

-----------------------------------------------------------------------------
(* OCRSpaceAPI.download_searchable_pdf *)

EmptyBytes == ""

WriteFile_FailureIgnored(f, output_path, content, write) ==
    IF write \notin {"ok", "write_fail"}
       \/ (output_path \in DOMAIN f /\ f[output_path] = Directory)
    THEN [fs |-> f, io |-> <<IoOpen(output_path, "wb")>>, ok |-> FALSE]
    ELSE [fs |-> (output_path :> (IF write = "ok" THEN content ELSE EmptyBytes)) @@ f,
          io |-> <<IoOpen(output_path, "wb"), IoWrite(output_path)>>, ok |-> TRUE]

\* open(output_path, 'wb') and f.write(content).  write is what the file
\* system does: "ok", "open_fail" (open raises, nothing is touched) or
\* "write_fail" (the file was created or truncated, then the write raises).
\* Opening a directory always raises.
WriteFile(f, output_path, content, write) ==
    IF write \notin {"ok", "write_fail"}
       \/ (Exists(f, output_path) /\ ~IsFile(f, output_path))
    THEN [fs |-> f, io |-> <<IoOpen(output_path, "wb")>>, ok |-> FALSE]
    ELSE IF write = "write_fail"
    THEN [fs |-> (output_path :> EmptyBytes) @@ f,
          io |-> <<IoOpen(output_path, "wb"), IoWrite(output_path)>>, ok |-> FALSE]
    ELSE [fs |-> (output_path :> content) @@ f,
          io |-> <<IoOpen(output_path, "wb"), IoWrite(output_path)>>, ok |-> TRUE]

HasPdfUrl_NotNone(pdf_url) == pdf_url # None

\* the negation of `not pdf_url`
HasPdfUrl(pdf_url) == Truthy(pdf_url)

\* fetch is what requests.get(pdf_url) and raise_for_status() end in: the
\* bytes of the PDF, or an exception of requests.exceptions.
download_searchable_pdf(f, response_data, output_path, fetch, write) ==
    LET pdf_url == Get(response_data, "SearchablePDFURL", None)
    IN  IF ~HasPdfUrl(pdf_url)
        THEN [fs |-> f, io |-> <<>>,
              log |-> <<LogRec("warning", "No searchable PDF URL found in response")>>,
              outcome |-> Return(FALSE)]
        ELSE LET request == [method |-> "GET", url |-> pdf_url, params |-> EmptyDict,
                             data |-> EmptyDict, files |-> EmptyDict,
                             timeout |-> URL_TIMEOUT]
                 info == LogRec("info", "Downloading searchable PDF")
                 failed == LogRec("error", "Failed to download searchable PDF")
             IN  IF fetch.kind # "ok"
                 THEN [fs |-> f, io |-> <<IoHttp(request)>>, log |-> <<info, failed>>,
                       outcome |-> Return(FALSE)]
                 ELSE LET w == WriteFile(f, output_path, fetch.content, write)
                      IN  [fs |-> w.fs, io |-> <<IoHttp(request)>> \o w.io,
                           log |-> <<info>> \o
                                   (IF w.ok THEN <<LogRec("info", "Searchable PDF saved")>>
                                    ELSE <<failed>>),
                           outcome |-> Return(w.ok)]

-----------------------------------------------------------------------------
(* What the service can answer *)

MaxPages == 3

T_hello == <<"H", "e", "l", "l", "o">>
T_world == <<"W", "o", "r", "l", "d">>
T_padded == <<" ", "H", "i", " ", "y", "o", "u", "\n">>
T_spaces == <<" ", "\n">>

TextInputs == {T_hello, T_world, T_padded, T_spaces, <<>>}

W_full == [WordText |-> "Hello", Left |-> 10, Top |-> 20, Height |-> 8, Width |-> 40]
W_partial == [WordText |-> "World", Left |-> 55]
W_empty == EmptyDict

L_two == [Words |-> <<W_full, W_partial>>]
L_one == [Words |-> <<W_empty>>]
L_none == [Words |-> <<>>]
L_absent == EmptyDict

OverlayInputs ==
    {EmptyDict,
     [Lines |-> <<>>],
     [Lines |-> <<L_two>>],
     [Lines |-> <<L_none, L_one>>],
     [Lines |-> <<L_absent, L_two, L_one>>]}

\* FileParseExitCode: 1 is success, -10 an engine parse error
PageCodeFields == {EmptyDict, "FileParseExitCode" :> 1, "FileParseExitCode" :> -10}

TextPages ==
    {c @@ t : c \in PageCodeFields,
              t \in {EmptyDict} \cup {"ParsedText" :> x : x \in TextInputs}}

OverlayPages ==
    {c @@ o : c \in PageCodeFields \ {EmptyDict},
              o \in {EmptyDict} \cup {"TextOverlay" :> x : x \in OverlayInputs}}

\* the page lists the extraction helpers are checked on
PageLists(pages) == UNION {[1..k -> pages] : k \in 0..MaxPages}

SamplePages ==
    <<[FileParseExitCode |-> 1, ParsedText |-> T_padded, TextOverlay |-> [Lines |-> <<L_two>>]],
      [FileParseExitCode |-> -10, ParsedText |-> T_world, TextOverlay |-> [Lines |-> <<L_one>>]],
      [FileParseExitCode |-> 1, ParsedText |-> T_world]>>

PdfUrlFields ==
    {EmptyDict, "SearchablePDFURL" :> None, "SearchablePDFURL" :> "",
     "SearchablePDFURL" :> "https://api.ocr.space/pdf/1"}

\* JSON bodies of the parse endpoints
ServiceBodies ==
    {"IsErroredOnProcessing" :> TRUE,
     ("IsErroredOnProcessing" :> TRUE) @@ ("OCRExitCode" :> 2)
        @@ [ErrorMessage |-> "Timed out waiting for results", ErrorDetails |-> "page 2"]}
    \cup {("IsErroredOnProcessing" :> FALSE) @@ ("OCRExitCode" :> c) : c \in {3, 4}}
    \cup {("ParsedResults" :> SamplePages) @@ ("OCRExitCode" :> 1) @@ u : u \in PdfUrlFields}
    \cup {("ParsedResults" :> SamplePages) @@ ("OCRExitCode" :> 2), EmptyDict}

TransportFailures == {[kind |-> k] : k \in RequestExceptions}

Replies == TransportFailures \cup {[kind |-> "ok", body |-> b] : b \in ServiceBodies}

PdfBytes == "%PDF-1"
Fetches == (TransportFailures \ {[kind |-> "JSONDecodeError"]})
           \cup {[kind |-> "ok", content |-> PdfBytes]}
Writes == {"ok", "open_fail", "write_fail"}

-----------------------------------------------------------------------------
(* The client and its caller *)

NoResponse == [held |-> FALSE, data |-> EmptyDict]
Held(r) == [held |-> TRUE, data |-> r]

\* __init__: api_key or os.getenv('OCR_SPACE_API_KEY', 'helloworld')
InitialKey(arg, env) ==
    IF Truthy(arg) THEN arg ELSE IF env # None THEN env ELSE "helloworld"

Constructed(key) ==
    [op |-> "__init__", args |-> EmptyDict, env |-> EmptyDict, io |-> <<>>,
     log |-> IF key = "helloworld"
             THEN <<LogRec("warning", "Using demo API key")>> ELSE <<>>,
     outcome |-> Return(None)]

InitialFs(out) ==
    (V_file :> "PNGDATA") @@ (V_missing :> Absent) @@ (V_dir :> Directory) @@ (V_out :> out)

Init ==
    /\ \E arg \in {None, "K-USER"} : api_key = InitialKey(arg, None)
    /\ fs = InitialFs(Absent)
    /\ response = NoResponse
    /\ call = Constructed(api_key)

\* what the environment did during a call that never asked it
NoReply == [kind |-> "none"]
NoWrite == "none"

\* client.ocr_space(input_type, input_value, language=..., ocr_engine=..., ...)
\* It reads self.api_key and the file system; the network answers only a call
\* that issues a request.
Submit ==
    \E key \in {api_key}, f \in {fs} :
    \E input_type \in InputKinds, language \in LanguageInputs,
       ocr_engine \in EngineInputs, options \in OptionInputs :
      \E input_value \in InputValues(input_type) :
        LET probe == ocr_space(key, f, input_type, input_value, language,
                               ocr_engine, options, NoReply)
        IN  \E reply \in (IF HttpRequests(probe.io) = <<>> THEN {NoReply} ELSE Replies) :
                \E x \in {ocr_space(key, f, input_type, input_value, language,
                                   ocr_engine, options, reply)} :
                    /\ call' = [op |-> "ocr_space",
                                args |-> [input_type |-> input_type,
                                          input_value |-> input_value,
                                          language |-> language,
                                          ocr_engine |-> ocr_engine,
                                          options |-> options],
                                env |-> [reply |-> reply],
                                io |-> x.io, log |-> x.log, outcome |-> x.outcome]
                    /\ response' = IF x.outcome.kind = "return"
                                   THEN Held(x.outcome.value) ELSE NoResponse
                    /\ UNCHANGED <<api_key, fs>>

\* client.extract_text(result)
ExtractText ==
    /\ response.held
    /\ call' = [op |-> "extract_text", args |-> [response_data |-> response.data],
                env |-> EmptyDict, io |-> <<>>, log |-> <<>>,
                outcome |-> Return(extract_text(response.data))]
    /\ UNCHANGED <<api_key, fs, response>>

\* client.extract_words_with_positions(result)
ExtractWords ==
    /\ response.held
    /\ call' = [op |-> "extract_words_with_positions",
                args |-> [response_data |-> response.data],
                env |-> EmptyDict, io |-> <<>>, log |-> <<>>,
                outcome |-> Return(extract_words_with_positions(response.data))]
    /\ UNCHANGED <<api_key, fs, response>>

\* client.download_searchable_pdf(result, output_path)
\* The network answers only if the URL is fetched, the file system only if
\* the destination is opened.
DownloadSearchablePdf ==
    /\ response.held
    /\ \E output_path \in OutputPaths :
        LET probe == download_searchable_pdf(fs, response.data, output_path, NoReply, NoWrite)
        IN  \E fetch \in (IF HttpRequests(probe.io) = <<>> THEN {NoReply} ELSE Fetches) :
            \E write \in (IF fetch.kind = "ok" THEN Writes ELSE {NoWrite}) :
            \E x \in {download_searchable_pdf(fs, response.data, output_path, fetch, write)} :
                /\ call' = [op |-> "download_searchable_pdf",
                            args |-> [response_data |-> response.data,
                                      output_path |-> output_path],
                            env |-> [fetch |-> fetch, write |-> write, fs_before |-> fs],
                            io |-> x.io, log |-> x.log, outcome |-> x.outcome]
                /\ fs' = x.fs
                /\ UNCHANGED <<api_key, response>>

Next == Submit \/ ExtractText \/ ExtractWords \/ DownloadSearchablePdf

Spec == Init /\ [][Next]_vars

\* The extraction helpers on every response of up to MaxPages pages: without
\* ParsedResults, with pages of text, with pages of overlay data.
InitExtract ==
    /\ api_key = "helloworld"
    /\ fs = InitialFs(Absent)
    /\ \/ response = Held(EmptyDict)
       \/ \E ps \in PageLists(TextPages) : response = Held("ParsedResults" :> ps)
       \/ \E ps \in PageLists(OverlayPages) : response = Held("ParsedResults" :> ps)
    /\ call = Constructed(api_key)

NextExtract == ExtractText \/ ExtractWords

SpecExtract == InitExtract /\ [][NextExtract]_vars

-----------------------------------------------------------------------------
(* Uploads of files of every kind of name *)

\* file names: a stem, a dot, an extension as written
Stems == {<<"a">>, <<"d", "/", "a">>, <<"a", ".", "p", "n", "g">>, <<"d", ".", "p", "d", "f", "/", "a", ".", "t", "a", "r">>}
Extensions ==
    {[written |-> <<"j", "p", "g">>, lower |-> "jpg"],
     [written |-> <<"J", "P", "G">>, lower |-> "jpg"],
     [written |-> <<"j", "p", "e", "g">>, lower |-> "jpeg"],
     [written |-> <<"J", "p", "E", "g">>, lower |-> "jpeg"],
     [written |-> <<"p", "n", "g">>, lower |-> "png"],
     [written |-> <<"P", "N", "G">>, lower |-> "png"],
     [written |-> <<"g", "i", "f">>, lower |-> "gif"],
     [written |-> <<"G", "i", "f">>, lower |-> "gif"],
     [written |-> <<"w", "e", "b", "p">>, lower |-> "webp"],
     [written |-> <<"W", "E", "B", "P">>, lower |-> "webp"],
     [written |-> <<"t", "i", "f">>, lower |-> "tif"],
     [written |-> <<"T", "I", "F">>, lower |-> "tif"],
     [written |-> <<"t", "i", "f", "f">>, lower |-> "tiff"],
     [written |-> <<"T", "i", "f", "f">>, lower |-> "tiff"],
     [written |-> <<"p", "d", "f">>, lower |-> "pdf"],
     [written |-> <<"P", "D", "F">>, lower |-> "pdf"],
     [written |-> <<"t", "x", "t">>, lower |-> "txt"],
     [written |-> <<"b", "m", "p">>, lower |-> "bmp"],
     [written |-> <<"j", "p", "e">>, lower |-> "jpe"],
     [written |-> <<"g", "z">>, lower |-> "gz"]}
\* names whose final component has no extension
PlainNames == {<<"a">>, <<"d", ".", "p", "d", "f", "/", "a">>, <<".", "p", "n", "g">>, <<"d", "/", ".", "p", "d", "f">>}

NamedFile(stem, e) == stem \o <<".">> \o e.written
UploadPaths == {NamedFile(stem, e) : stem \in Stems, e \in Extensions} \cup PlainNames

\* one regular file on disk, under any of the names
InitUpload ==
    /\ api_key = "helloworld"
    /\ \E p \in UploadPaths : fs = (p :> "DATA")
    /\ response = NoResponse
    /\ call = Constructed(api_key)

\* client.ocr_space('file', file_path, ...) on a file that is there
Upload ==
    \E key \in {api_key}, f \in {fs} :
    \E file_path \in DOMAIN f, options \in OptionInputs, reply \in Replies :
        \E x \in {ocr_space(key, f, "file", file_path, "eng", 2, options, reply)} :
            /\ call' = [op |-> "ocr_space",
                        args |-> [input_type |-> "file",
                                  input_value |-> file_path,
                                  language |-> "eng",
                                  ocr_engine |-> 2,
                                  options |-> options],
                        env |-> [reply |-> reply],
                        io |-> x.io, log |-> x.log, outcome |-> x.outcome]
            /\ response' = IF x.outcome.kind = "return"
                           THEN Held(x.outcome.value) ELSE NoResponse
            /\ UNCHANGED <<api_key, fs>>

NextUpload == Upload

SpecUpload == InitUpload /\ [][NextUpload]_vars

-----------------------------------------------------------------------------
(* Properties of ocr_space *)

Submitted == call.op = "ocr_space"

\* the options of the call pass the four validations
ValidArgs(args) ==
    /\ args.input_type \in {"url", "file", "base64"}
    /\ args.language \in LANGUAGES
    /\ args.ocr_engine \in {1, 2}
    /\ (args.language = "auto" => args.ocr_engine = 2)

RaisedType(type) == call.outcome.kind = "raise" /\ call.outcome.type = type

\* the key/value pairs of a request, query string and body together
RequestFields(req) == req.params @@ req.data

\* C1: a call to ocr_space whose input_type is not url/file/base64, or whose
\* language is not a key of LANGUAGES, or whose ocr_engine is not 1 or 2,
\* raises ValueError, and by then it has done no I/O at all: no HTTP request,
\* no look at the file system.
C1_InvalidArgumentRaisedBeforeIO ==
    (Submitted /\ (\/ call.args.input_type \notin {"url", "file", "base64"}
                   \/ call.args.language \notin LANGUAGES
                   \/ call.args.ocr_engine \notin {1, 2}))
        => RaisedType("ValueError") /\ call.io = <<>> /\ ~response.held

\* an existing file submitted with an unsupported language and valid
\* input_type and engine: rejected without touching the file
C1_Witness ==
    /\ Submitted
    /\ call.args.input_type = "file" /\ call.args.input_value = V_file
    /\ call.args.language \notin LANGUAGES /\ call.args.ocr_engine = 2
    /\ call.args.options.filetype = "PDF"
    /\ RaisedType("ValueError") /\ call.io = <<>>

\* C2: language "auto" with engine 1 is rejected with ValueError, and every
\* HTTP request ocr_space issues carries a language of LANGUAGES, an engine
\* of 1 or 2, and engine 2 whenever its language is "auto".
C2_AutoRequiresEngine2 ==
    Submitted =>
        /\ (call.args.language = "auto" /\ call.args.ocr_engine = 1)
               => RaisedType("ValueError") /\ HttpRequests(call.io) = <<>>
        /\ \A i \in DOMAIN HttpRequests(call.io) :
               LET fields == RequestFields(HttpRequests(call.io)[i])
               IN  /\ fields["language"] \in LANGUAGES
                   /\ fields["OCREngine"] \in {"1", "2"}
                   /\ (fields["language"] = "auto" => fields["OCREngine"] = "2")

\* both halves happen: auto with engine 1 is rejected for each input kind ...
C2_Witness ==
    /\ Submitted
    /\ call.args.input_type = "base64" /\ call.args.input_value = V_b64
    /\ call.args.language = "auto" /\ call.args.ocr_engine = 1
    /\ RaisedType("ValueError")

\* C3: with input_type file and otherwise valid options, a path that does not
\* exist raises FileNotFoundError and no HTTP request is issued.
C3_MissingFileNotFound ==
    (Submitted /\ call.args.input_type = "file" /\ ValidArgs(call.args)
               /\ (call.args.input_value \notin DOMAIN fs
                   \/ fs[call.args.input_value] = Absent))
        => /\ RaisedType("FileNotFoundError")
           /\ HttpRequests(call.io) = <<>>
           /\ ~response.held

C3_Witness ==
    /\ Submitted /\ call.args.input_type = "file" /\ ValidArgs(call.args)
    /\ call.args.input_value = V_missing /\ fs[V_missing] = Absent
    /\ RaisedType("FileNotFoundError")
    /\ call.io = <<IoExists(V_missing)>>

\* s begins with a data-URI prefix data:...;base64,
HasDataUriBase64Prefix(s) ==
    /\ StartsWith(s, S_data)
    /\ \E i \in (Len(S_data) + 1)..(Len(s) - Len(S_base64) + 1) :
           SubSeq(s, i, i + Len(S_base64) - 1) = S_base64

\* the base64 payloads ocr_space has sent
SentPayloads ==
    {RequestFields(HttpRequests(call.io)[i])["base64Image"] :
        i \in {j \in DOMAIN HttpRequests(call.io) :
                  "base64Image" \in DOMAIN RequestFields(HttpRequests(call.io)[j])}}

\* C4 as stated: with input_type base64 and otherwise valid options, a payload
\* that does not begin with data:...;base64, raises ValueError before any HTTP
\* request, and only a payload with that prefix is sent as base64Image.
C4_AsStated ==
    (Submitted /\ call.args.input_type = "base64" /\ ValidArgs(call.args))
        => /\ ~HasDataUriBase64Prefix(call.args.input_value)
                  => RaisedType("ValueError") /\ HttpRequests(call.io) = <<>>
           /\ \A payload \in SentPayloads : HasDataUriBase64Prefix(payload)

\* C4: with input_type base64 and otherwise valid options, a payload that does
\* not begin with "data:" raises ValueError before any HTTP request is issued,
\* and only a payload beginning with "data:" is sent, unchanged, as the
\* base64Image body field; what follows "data:" is not inspected.
C4_DataPrefixRequired ==
    (Submitted /\ call.args.input_type = "base64" /\ ValidArgs(call.args))
        => /\ ~StartsWith(call.args.input_value, S_data)
                  => RaisedType("ValueError") /\ call.io = <<>>
           /\ \A payload \in SentPayloads :
                  StartsWith(payload, S_data) /\ payload = call.args.input_value
           /\ StartsWith(call.args.input_value, S_data)
                  => /\ Len(HttpRequests(call.io)) = 1
                     /\ SentPayloads = {call.args.input_value}
                     /\ HttpRequests(call.io)[1].method = "POST"

\* a payload without the prefix is rejected
C4_Witness ==
    /\ Submitted /\ call.args.input_type = "base64" /\ ValidArgs(call.args)
    /\ call.args.input_value = V_b64_bare
    /\ RaisedType("ValueError") /\ call.io = <<>>

\* the exchange of the call completed with a JSON body
Answered == Submitted /\ call.env.reply.kind = "ok"

Body == call.env.reply.body

BodyErrored == "IsErroredOnProcessing" \in DOMAIN Body /\ Body["IsErroredOnProcessing"]

BodyExitCode(c) == "OCRExitCode" \in DOMAIN Body /\ Body["OCRExitCode"] = c

\* C5: after a successful HTTP exchange the body is validated before it is
\* returned: a body with IsErroredOnProcessing set raises a processing error
\* carrying the service's ErrorMessage and ErrorDetails, a body with
\* OCRExitCode 3 or 4 raises a processing error, and in these cases no
\* response reaches the caller.
C5_ResponseValidated ==
    Answered =>
        /\ BodyErrored =>
               /\ RaisedType("Exception")
               /\ call.outcome.msg[1] = "OCR processing error: "
               /\ "ErrorMessage" \in DOMAIN Body => call.outcome.msg[2] = Body["ErrorMessage"]
               /\ "ErrorDetails" \in DOMAIN Body => call.outcome.msg[4] = Body["ErrorDetails"]
        /\ (BodyExitCode(3) \/ BodyExitCode(4)) => RaisedType("Exception")
        /\ (BodyErrored \/ BodyExitCode(3) \/ BodyExitCode(4)) => ~response.held
        /\ call.outcome.kind = "return" => call.outcome.value = Body

\* a fatal exit code in a body that is not flagged as errored
C5_Witness ==
    /\ Answered /\ ~BodyErrored /\ BodyExitCode(4)
    /\ RaisedType("Exception") /\ call.outcome.msg = <<"Fatal OCR error occurred">>
    /\ ~response.held

PartialWarning == LogRec("warning", "Partial OCR success - some pages may have failed")

Logged(rec) == \E i \in DOMAIN call.log : call.log[i] = rec

\* C6 as stated: every answered call whose body has OCRExitCode 2 logs a
\* warning, raises nothing and returns the body.
C6_AsStated ==
    (Answered /\ BodyExitCode(2))
        => /\ Logged(PartialWarning)
           /\ call.outcome = Return(Body)

\* C6: an answered call whose body has OCRExitCode 2 and does not have
\* IsErroredOnProcessing set logs a warning, raises nothing and returns the
\* body to the caller; with IsErroredOnProcessing set the call raises the
\* processing error whatever the exit code.
C6_PartialSuccessReturned ==
    (Answered /\ BodyExitCode(2))
        => IF BodyErrored
           THEN RaisedType("Exception") /\ ~Logged(PartialWarning)
           ELSE /\ Logged(PartialWarning)
                /\ call.outcome = Return(Body)
                /\ response = Held(Body)

C6_Witness ==
    /\ Answered /\ BodyExitCode(2) /\ ~BodyErrored
    /\ Logged(PartialWarning)
    /\ response = Held(Body)
    /\ "ParsedResults" \in DOMAIN response.data

-----------------------------------------------------------------------------
(* Properties of the extraction helpers *)

\* the pages of the response the helper was applied to
ArgPages == Get(call.args.response_data, "ParsedResults", <<>>)

SuccessfulPages(pages) ==
    SelectSeqIdx(pages, [i \in DOMAIN pages |-> PageSucceeded(pages[i])])

\* the trimmed ParsedText of each successful page, in page order
TrimmedTexts(pages) ==
    [i \in DOMAIN SuccessfulPages(pages) |->
        Strip(Get(SuccessfulPages(pages)[i], "ParsedText", <<>>))]

NonEmpty(texts) == SelectSeqIdx(texts, [i \in DOMAIN texts |-> texts[i] # <<>>])

\* C7 as stated: extract_text returns the trimmed ParsedText of every
\* successful page, in page order, joined with "\n\n".
C7_AsStated ==
    call.op = "extract_text"
        => call.outcome = Return(Join(S_blank_line, TrimmedTexts(ArgPages)))

\* C7: extract_text returns, in page order, the whitespace-trimmed ParsedText
\* of every successful page (FileParseExitCode 1) whose trimmed text is not
\* empty, joined with "\n\n"; failed pages and successful pages with empty or
\* all-whitespace text contribute nothing, not even a separator, and nothing
\* is raised.
C7_TextOfSuccessfulPages ==
    call.op = "extract_text"
        => /\ call.outcome = Return(Join(S_blank_line, NonEmpty(TrimmedTexts(ArgPages))))
           /\ call.io = <<>>

\* "Hello", a failed page, "World": "Hello\n\nWorld"
C7_Witness ==
    /\ call.op = "extract_text"
    /\ ArgPages = <<[FileParseExitCode |-> 1, ParsedText |-> T_hello],
                    [FileParseExitCode |-> -10, ParsedText |-> T_padded],
                    [FileParseExitCode |-> 1, ParsedText |-> T_world]>>
    /\ call.outcome = Return(<<"H", "e", "l", "l", "o", "\n", "\n", "W", "o", "r", "l", "d">>)

ArgLines(p) == Get(Get(ArgPages[p], "TextOverlay", EmptyDict), "Lines", <<>>)
ArgWords(p, l) == Get(ArgLines(p)[l], "Words", <<>>)

\* the 1-based <<page, line, word>> positions of the words of successful pages
WordPositions ==
    UNION {UNION {{<<p, l, w>> : w \in DOMAIN ArgWords(p, l)} : l \in DOMAIN ArgLines(p)} :
              p \in {q \in DOMAIN ArgPages : PageSucceeded(ArgPages[q])}}

Position(rec) == <<rec.page, rec.line, rec.word_index>>

\* page/line/word order
Before(a, b) ==
    \/ a[1] < b[1]
    \/ a[1] = b[1] /\ a[2] < b[2]
    \/ a[1] = b[1] /\ a[2] = b[2] /\ a[3] < b[3]

\* C8: extract_words_with_positions returns exactly one record per word of
\* every line of every successful page, in page/line/word order, with 1-based
\* page, line and word indices (the page index counting failed pages too),
\* the word's text and its left/top/height/width, a missing geometry field
\* being 0; without overlay data the list is empty and nothing is raised.
C8_OneRecordPerWord ==
    call.op = "extract_words_with_positions" =>
        LET words == call.outcome.value
        IN  /\ call.outcome.kind = "return"
            /\ Len(words) = Cardinality(WordPositions)
            /\ \A i \in DOMAIN words :
                   /\ Position(words[i]) \in WordPositions
                   /\ LET word == ArgWords(words[i].page, words[i].line)[words[i].word_index]
                      IN  /\ words[i].text = Get(word, "WordText", "")
                          /\ words[i].left = Get(word, "Left", 0)
                          /\ words[i].top = Get(word, "Top", 0)
                          /\ words[i].width = Get(word, "Width", 0)
                          /\ words[i].height = Get(word, "Height", 0)
                          /\ DOMAIN words[i] = {"page", "line", "word_index", "text",
                                                "left", "top", "height", "width"}
            /\ \A i \in 1..(Len(words) - 1) : Before(Position(words[i]), Position(words[i + 1]))

\* a failed page, then a page with one line of two words, the second without
\* top, width and height
C8_Witness ==
    /\ call.op = "extract_words_with_positions"
    /\ ArgPages = <<[FileParseExitCode |-> -10, TextOverlay |-> [Lines |-> <<L_two>>]],
                    [FileParseExitCode |-> 1, TextOverlay |-> [Lines |-> <<L_two>>]]>>
    /\ call.outcome.value =
           <<[page |-> 2, line |-> 1, word_index |-> 1, text |-> "Hello",
              left |-> 10, top |-> 20, height |-> 8, width |-> 40],
             [page |-> 2, line |-> 1, word_index |-> 2, text |-> "World",
              left |-> 55, top |-> 0, height |-> 0, width |-> 0]>>

-----------------------------------------------------------------------------
(* Properties of download_searchable_pdf *)

Downloaded == call.op = "download_searchable_pdf"

ArgPdfUrl == Get(call.args.response_data, "SearchablePDFURL", None)

\* C9: for a response without SearchablePDFURL (absent, null or empty)
\* download_searchable_pdf returns False, issues no HTTP request, and leaves
\* the file system, the destination included, as it was.
C9_NoUrlNoDownload ==
    (Downloaded /\ ArgPdfUrl \in {None, ""})
        => /\ call.outcome = Return(FALSE)
           /\ call.io = <<>>
           /\ fs = call.env.fs_before

\* an empty URL, with a destination that an earlier download has written
C9_Witness ==
    /\ Downloaded
    /\ "SearchablePDFURL" \in DOMAIN call.args.response_data /\ ArgPdfUrl = ""
    /\ call.args.output_path = V_out /\ fs[V_out] = PdfBytes
    /\ call.outcome = Return(FALSE)

\* the destination can be opened for writing and the write goes through
WriteSucceeds ==
    /\ call.env.write = "ok"
    /\ call.env.fs_before[call.args.output_path] # Directory

\* C10: for a response with a SearchablePDFURL, download_searchable_pdf
\* fetches that URL with one GET; it returns True exactly when the fetch and
\* the write both succeeded, and then the destination holds the fetched bytes;
\* when the fetch fails nothing is written; it returns False and never raises
\* when either fails.
C10_DownloadReportsSuccess ==
    (Downloaded /\ ArgPdfUrl \notin {None, ""})
        => /\ call.outcome.kind = "return"
           /\ call.outcome.value \in BOOLEAN
           /\ Len(HttpRequests(call.io)) = 1
           /\ HttpRequests(call.io)[1].method = "GET"
           /\ HttpRequests(call.io)[1].url = ArgPdfUrl
           /\ call.outcome.value <=> (call.env.fetch.kind = "ok" /\ WriteSucceeds)
           /\ call.outcome.value
                  => fs = [call.env.fs_before EXCEPT
                               ![call.args.output_path] = call.env.fetch.content]
           /\ call.env.fetch.kind # "ok" => fs = call.env.fs_before

\* the fetch succeeded and the write failed after truncating the destination
C10_Witness ==
    /\ Downloaded /\ ArgPdfUrl \notin {None, ""}
    /\ call.env.fetch.kind = "ok" /\ call.env.write = "write_fail"
    /\ call.env.fs_before[V_out] = PdfBytes /\ fs[V_out] = EmptyBytes
    /\ call.outcome = Return(FALSE)

-----------------------------------------------------------------------------
(* Transport failures *)

\* the exchange of the call ended in an exception of requests
ExchangeFailed == Submitted /\ call.env.reply.kind \in RequestExceptions

\* log records that only _process_response writes
ValidationLogs ==
    {LogRec("info", "OCR completed"),
     LogRec("warning", "Partial OCR success - some pages may have failed")}

\* C11: when the HTTP exchange of an ocr_space call fails (connection error,
\* timeout, HTTP error status), whatever the input_type, the call raises that
\* same exception: its class is not replaced by another, _process_response
\* has not run, and the caller holds no response.
C11_TransportErrorPropagated ==
    ExchangeFailed
        => /\ call.args.input_type \in {"url", "file", "base64"}
           /\ call.outcome = Raise(call.env.reply.kind, <<"transport">>)
           /\ \A i \in DOMAIN call.log : call.log[i] \notin ValidationLogs
           /\ Len(HttpRequests(call.io)) = 1
           /\ ~response.held

\* an upload of an existing file that times out
C11_Witness ==
    /\ ExchangeFailed
    /\ call.args.input_type = "file" /\ call.args.input_value = V_file
    /\ call.env.reply.kind = "Timeout"
    /\ RaisedType("Timeout")
    /\ Len(HttpRequests(call.io)) = 1

-----------------------------------------------------------------------------
(* One request per call *)

\* the call gets as far as the HTTP request: the options pass validation, a
\* file input names a regular file, a base64 input begins with data:
ReachesExchange ==
    /\ ValidArgs(call.args)
    /\ call.args.input_type = "file" => IsFile(fs, call.args.input_value)
    /\ call.args.input_type = "base64" => StartsWith(call.args.input_value, S_data)

\* the endpoint each input_type is sent to
EndpointOf(input_type) == IF input_type = "url" THEN GET_ENDPOINT ELSE POST_ENDPOINT

-----------------------------------------------------------------------------
(* State shared between calls *)

Flag(b) == IF b THEN "true" ELSE "false"

\* the fields a request of this call carries, from this call's arguments and
\* the key alone
FieldsOf(key, args) ==
    [apikey |-> key,
     language |-> args.language,
     OCREngine |-> IF args.ocr_engine = 1 THEN "1" ELSE "2",
     isOverlayRequired |-> Flag(args.options.is_overlay_required),
     detectOrientation |-> Flag(args.options.detect_orientation),
     isCreateSearchablePdf |-> Flag(args.options.is_create_searchable_pdf),
     isSearchablePdfHideTextLayer |-> Flag(args.options.is_searchable_pdf_hide_text_layer),
     scale |-> Flag(args.options.scale),
     isTable |-> Flag(args.options.is_table)]
    @@ (IF args.options.filetype \notin {None, ""} THEN "filetype" :> args.options.filetype ELSE <<>>)
    @@ (IF args.input_type = "url" THEN "url" :> args.input_value ELSE <<>>)
    @@ (IF args.input_type = "base64" THEN "base64Image" :> args.input_value ELSE <<>>)

\* what the call did is a function of its arguments, the key, the file system
\* and the reply, and its request carries the fields of this call only
OwnArgumentsOnly ==
    Submitted
        => /\ [io |-> call.io, log |-> call.log, outcome |-> call.outcome]
                  = ocr_space(api_key, fs, call.args.input_type, call.args.input_value,
                              call.args.language, call.args.ocr_engine,
                              call.args.options, call.env.reply)
           /\ \A i \in DOMAIN HttpRequests(call.io) :
                  RequestFields(HttpRequests(call.io)[i]) = FieldsOf(api_key, call.args)

\* C13: no call of the client, succeeding or failing, changes api_key, and in
\* every state what the last ocr_space call did is determined by its own
\* arguments, the key, the file system and the reply: the request it issued
\* carries exactly the fields built from this call's arguments, none left
\* over from an earlier call.
C13_KeyFixedNoLeak == []OwnArgumentsOnly /\ [][api_key' = api_key]_vars

\* a call without filetype made after an earlier call succeeded and its PDF
\* was downloaded: the request has no filetype field and carries the user's key
C13_Witness ==
    /\ Submitted /\ api_key = "K-USER"
    /\ fs[V_out] = PdfBytes
    /\ call.args.input_type = "url" /\ call.args.options.filetype = None
    /\ Len(HttpRequests(call.io)) = 1
    /\ "filetype" \notin DOMAIN RequestFields(HttpRequests(call.io)[1])
    /\ RequestFields(HttpRequests(call.io)[1]).apikey = "K-USER"
    /\ call.outcome.kind = "raise"

-----------------------------------------------------------------------------
(* Content type of an upload *)

\* the mapping table, by lower-case extension without its dot
TypeOfExtension(lower) ==
    CASE lower \in {"jpg", "jpeg"} -> "image/jpeg"
      [] lower = "png" -> "image/png"
      [] lower = "gif" -> "image/gif"
      [] lower = "webp" -> "image/webp"
      [] lower \in {"tif", "tiff"} -> "image/tiff"
      [] lower = "pdf" -> "application/pdf"
      [] OTHER -> "application/octet-stream"

\* an ocr_space call that uploaded an existing regular file
Uploaded ==
    /\ Submitted /\ call.args.input_type = "file" /\ ValidArgs(call.args)
    /\ IsFile(fs, call.args.input_value)

\* the content type of the multipart part of the upload
SentContentType == HttpRequests(call.io)[1].files.file[3]

\* C14: for every existing file submitted with input_type file, the content
\* type of the multipart part follows from the extension of the file name,
\* whatever its letter case: jpg and jpeg give image/jpeg, png image/png, gif
\* image/gif, webp image/webp, tif and tiff image/tiff, pdf application/pdf,
\* any other extension and a name without extension application/octet-stream.
C14_ContentTypeByExtension ==
    Uploaded
        => /\ Len(HttpRequests(call.io)) = 1
           /\ DOMAIN HttpRequests(call.io)[1].files = {"file"}
           /\ \A stem \in Stems, e \in Extensions :
                  call.args.input_value = NamedFile(stem, e)
                      => SentContentType = TypeOfExtension(e.lower)
           /\ call.args.input_value \in PlainNames
                  => SentContentType = "application/octet-stream"

\* a.tar.JpEg inside a directory named d.pdf is uploaded as image/jpeg
C14_Witness ==
    /\ Uploaded
    /\ call.args.input_value
          = NamedFile(<<"d", ".", "p", "d", "f", "/", "a", ".", "t", "a", "r">>,
                      [written |-> <<"J", "p", "E", "g">>, lower |-> "jpeg"])
    /\ SentContentType = "image/jpeg"
    /\ call.outcome.kind = "return"

====
